---- MODULE Spec2Model ----
(***************************************************************************)
(* The WhatsApp voice relay of backend/whatsapp-voice.js: the session      *)
(* registry (voiceSessions), the per-connection Twilio media-stream        *)
(* handlers and the OpenAI Realtime socket each connection opens.          *)
(*                                                                         *)
(* One JavaScript handler runs to completion between two suspension points *)
(* (an await, a timer, a socket event), so every action below is one such  *)
(* run-to-completion segment.                                              *)
(***************************************************************************)
EXTENDS Integers, Sequences, FiniteSets, TLC

\* ------------------------------------------------------------------ bounds
NConns == 2
MaxStarts == 2
MaxFrames == 2
MaxDeltas == 2
MaxTurns == 1
MaxTime == 1
MaxIdle == 2
MaxChats == 2
MaxConvs == 2
MaxHookCalls == 3
MaxUserCalls == 3

Conns == 1..NConns
\* Twilio opens one media stream per call: connection c carries call c.
CallSids == Conns
Phones == {1, 2}
Null == 0
\* a field the request body does not carry
Undefined == -1

\* readyState of a ws WebSocket
CONNECTING == 0
OPEN == 1
CLOSING == 2
CLOSED == 3

VARIABLES
  now,            \* Date.now(), coarse
  sessions,       \* whatsapp.js sessions: phone -> session record (DOMAIN = phones seen)
  arrays,         \* the conversationHistory array objects, by identity
  voiceSessions,  \* whatsapp-voice.js voiceSessions: callSid -> entry
  lastResponse,   \* what the last HTTP handler answered
  wsState,        \* the Twilio media-stream connections: "none", "open", "closed"
  streamSid,      \* per connection: let streamSid
  callSid,        \* per connection: let callSid
  openAiWs,       \* per connection: let openAiWs (index into socks, Null = null)
  invocations,    \* connectToOpenAI calls suspended on an await
  socks,          \* every OpenAI WebSocket created, in creation order
  toTwilio,       \* per connection: the frames written to the Twilio socket
  stopped,        \* per connection: a 'stop' event was delivered
  mediaIn,        \* per connection: the 'media' events received, in order
  deltaIn,        \* per connection: the response.audio.delta events received
  nStarts,        \* per connection: 'start' events delivered so far
  nFrames, nDeltas, nTurns,  \* budgets used so far
  supabase,       \* supabase.js: whether the client was created (credentials set)
  store,          \* the rows of table user_conversations
  chats,          \* the POST /api/chat requests, each with its position
  lastOp,         \* the last call of a store function and what it did
  hookStatus,     \* use-voice-agent.ts: the hook's state `status`
  sessionRef,     \* the hook's sessionRef.current (index into hookSessions, Null = null)
  hookSessions,   \* every RealtimeSession the hook created: "created", "open", "closed"
  hookCalls,      \* the connect() and disconnect() calls, each with its position
  users,          \* database.js: the rows of table users
  userCalls       \* the createOrGetUser calls, each with its position

vars == <<now, sessions, arrays, voiceSessions, lastResponse, wsState, streamSid,
          callSid, openAiWs, invocations, socks, toTwilio, stopped, mediaIn,
          deltaIn, nStarts, nFrames, nDeltas, nTurns, supabase, store, chats,
          lastOp, hookStatus, sessionRef, hookSessions, hookCalls, users, userCalls>>

registryVars == <<now, sessions, arrays, voiceSessions, lastResponse>>
connVars == <<wsState, streamSid, callSid, openAiWs, stopped>>
relayVars == <<invocations, socks, toTwilio, mediaIn, deltaIn>>
budgetVars == <<nStarts, nFrames, nDeltas, nTurns>>
storeVars == <<supabase, store, chats, lastOp>>
hookVars == <<hookStatus, sessionRef, hookSessions, hookCalls>>
userVars == <<users, userCalls>>
sideVars == <<storeVars, hookVars, userVars>>

\* ------------------------------------------------------------ small helpers
Count(s, P(_)) == Cardinality({i \in DOMAIN s : P(s[i])})

RemoveAt(s, i) == [j \in 1..(Len(s) - 1) |-> IF j < i THEN s[j] ELSE s[j + 1]]

\* The events the relay sends on an OpenAI socket: the type and, of the payload,
\* the audio, the role and text of a conversation item (a label and the lines
\* under it) and the instructions of a session.
EventOf(type) ==
  [type |-> type, audio |-> Null, role |-> "", instructions |-> "", label |-> "",
   lines |-> <<>>]

SessionUpdate(instructions) ==
  [EventOf("session.update") EXCEPT !.instructions = instructions]

ResponseCreate == EventOf("response.create")

\* formatConversationContext with the turns in reverse order.
formatConversationContextReversed(history) ==
  [label |-> "PREVIOUS CONVERSATION CONTEXT",
   lines |-> [i \in DOMAIN history |->
                [speaker |-> IF history[Len(history) + 1 - i].role = "user"
                             THEN "User" ELSE "Assistant",
                 content |-> history[Len(history) + 1 - i].content]]]

\* voice-config.js formatConversationContext: under the heading, one line
\* "Speaker: content" per turn, in order.
formatConversationContext(history) ==
  [label |-> "PREVIOUS CONVERSATION CONTEXT",
   lines |-> [i \in DOMAIN history |->
                [speaker |-> IF history[i].role = "user" THEN "User" ELSE "Assistant",
                 content |-> history[i].content]]]

\* voice-config.js createContextInjectionPayload
createContextInjectionPayload(contextMessage) ==
  [EventOf("conversation.item.create") EXCEPT
     !.role = "system", !.label = contextMessage.label, !.lines = contextMessage.lines]

ContextItem(history) == createContextInjectionPayload(formatConversationContext(history))

AudioAppend(p) == [EventOf("input_audio_buffer.append") EXCEPT !.audio = p]

IsAppend(e) == e.type = "input_audio_buffer.append"
IsContextItem(e) == e.type = "conversation.item.create"
IsResponseCreate(e) == e.type = "response.create"

\* The StreamSid Twilio announces in the 'start' event of connection c: one per
\* stream, so a repeated 'start' carries it again.
StreamSidOf(c) == 100 + c

RECURSIVE SumOver(_, _)
SumOver(f, S) == IF S = {} THEN 0
                 ELSE LET x == CHOOSE y \in S : TRUE IN f[x] + SumOver(f, S \ {x})

\* ---------------------------------------------------------------- ws library
\* WebSocket.send: throws while CONNECTING, writes while OPEN, and is dropped
\* without an exception once the socket is CLOSING or CLOSED.
SendThrows(ss, t) == ss[t].readyState = CONNECTING

OpenAiSend(ss, t, e) ==
  IF ss[t].readyState = OPEN THEN [ss EXCEPT ![t].sent = Append(@, e)] ELSE ss

\* WebSocket.close: a CONNECTING socket aborts its handshake, an OPEN one starts
\* the closing handshake; both are CLOSING until the 'close' event.
WsClose(ss, t) ==
  IF ss[t].readyState \in {CONNECTING, OPEN}
  THEN [ss EXCEPT ![t].readyState = CLOSING, ![t].closeCalled = TRUE]
  ELSE ss

\* twilioWs.send on the server-side socket of connection c.
TwilioSend(c, frame) ==
  IF wsState[c] = "open" THEN [toTwilio EXCEPT ![c] = Append(@, frame)] ELSE toTwilio

\* ------------------------------------------------------------------ registry
\* whatsapp.js getSession: get or create, and touch lastActivity.
HasSession(p) == p \in DOMAIN sessions

NewSession(p) ==
  [phoneNumber |-> p, conversationHistory |-> Len(arrays) + 1,
   lastActivity |-> now, voiceCallActive |-> FALSE]

getSession(p) ==
  IF HasSession(p) THEN [sessions[p] EXCEPT !.lastActivity = now] ELSE NewSession(p)

ArraysAfterGet(p) == IF HasSession(p) THEN arrays ELSE Append(arrays, <<>>)

\* whatsapp-voice.js getWhatsAppSession
getWhatsAppSession(p) == [getSession(p) EXCEPT !.voiceCallActive = TRUE]

\* VoiceEntry with one history array for every caller.
VoiceEntrySharedHistory(cs, p) ==
  LET s == getWhatsAppSession(p) IN
  [phoneNumber |-> s.phoneNumber, conversationHistory |-> 1,
   lastActivity |-> s.lastActivity, voiceCallActive |-> s.voiceCallActive,
   callSid |-> cs, startTime |-> now]

\* The entry handleWhatsAppVoiceCall stores: {...session, callSid, startTime}.
VoiceEntry(cs, p) ==
  LET s == getWhatsAppSession(p) IN
  [phoneNumber |-> s.phoneNumber, conversationHistory |-> s.conversationHistory,
   lastActivity |-> s.lastActivity, voiceCallActive |-> s.voiceCallActive,
   callSid |-> cs, startTime |-> now]

\* What an HTTP handler answered, to which request, and whether voiceSessions
\* held the request's CallSid when it arrived.
Response(kind, cs, status) ==
  [kind |-> kind, callSid |-> cs, status |-> status,
   hadEntry |-> cs \in DOMAIN voiceSessions]

\* POST /api/whatsapp/voice/webhook with CallSid cs and From whatsapp:p, either
\* of which the body may lack. from.replace throws on an undefined From, and the
\* catch block answers with the apology and <Hangup/>.
handleWhatsAppVoiceCall(cs, p) ==
  /\ IF p = Undefined
     THEN /\ lastResponse' = Response("twiml-hangup", cs, "none")
          /\ UNCHANGED <<sessions, arrays, voiceSessions>>
     ELSE /\ sessions' = (p :> getWhatsAppSession(p)) @@ sessions
          /\ arrays' = ArraysAfterGet(p)
          /\ voiceSessions' = (cs :> VoiceEntry(cs, p)) @@ voiceSessions
          /\ lastResponse' = Response("twiml-connect", cs, "none")
  /\ UNCHANGED <<sideVars, now, connVars, relayVars, budgetVars>>

\* The same request when a statement after voiceSessions.set throws (building
\* or sending the TwiML): the catch block answers with the apology and
\* <Hangup/> and deletes nothing.
handleWhatsAppVoiceCallThrowing(cs, p) ==
  /\ p # Undefined
  /\ sessions' = (p :> getWhatsAppSession(p)) @@ sessions
  /\ arrays' = ArraysAfterGet(p)
  /\ voiceSessions' = (cs :> VoiceEntry(cs, p)) @@ voiceSessions
  /\ lastResponse' = Response("twiml-hangup", cs, "none")
  /\ UNCHANGED <<sideVars, now, connVars, relayVars, budgetVars>>

CallStatuses == {"initiated", "ringing", "in-progress", "completed",
                 "busy", "failed", "no-answer", "canceled"}

\* Map.prototype.delete
MapDelete(m, k) == [j \in DOMAIN m \ {k} |-> m[j]]

\* StatusCleanup deleting whichever entry there is when the CallSid has none.
StatusCleanupAny(vs, cs, status) ==
  IF status # "completed" \/ DOMAIN vs = {} THEN vs
  ELSE IF cs \in DOMAIN vs THEN MapDelete(vs, cs)
       ELSE MapDelete(vs, CHOOSE k \in DOMAIN vs : TRUE)

\* if (CallStatus === 'completed') { if (voiceSessions.get(CallSid)) delete }
StatusCleanup(vs, cs, status) ==
  IF status = "completed" /\ cs \in DOMAIN vs THEN MapDelete(vs, cs) ELSE vs

\* POST /api/whatsapp/voice/status
handleVoiceCallStatus(cs, status) ==
  /\ voiceSessions' = StatusCleanup(voiceSessions, cs, status)
  /\ lastResponse' = Response("200", cs, status)
  /\ UNCHANGED <<sideVars, now, sessions, arrays, connVars, relayVars, budgetVars>>

\* whatsapp.js handleWhatsAppWebhook -> processMessageAsync, up to its first
\* await: the text message is pushed on the caller's conversation history.
Said(role, content) == [role |-> role, content |-> content]

\* a turn from before the server's clock started
Turn(role) == Said(role, Null)

TextMessage(p) ==
  /\ nTurns < MaxTurns
  /\ nTurns' = nTurns + 1
  /\ sessions' = (p :> getSession(p)) @@ sessions
  /\ arrays' = [ArraysAfterGet(p) EXCEPT ![getSession(p).conversationHistory] =
                  Append(@, Said("user", nTurns + 1))]
  /\ UNCHANGED <<sideVars, now, voiceSessions, lastResponse, connVars, relayVars,
                 nStarts, nFrames, nDeltas>>

\* Rejected turning away the invalid requests outside production only.
RejectedOutsideProduction(isValid, production) == ~isValid /\ ~production

\* if (!isValid && process.env.NODE_ENV === 'production')
Rejected(isValid, production) == ~isValid /\ production

\* whatsapp.js handleWhatsAppWebhook for a text message of phone number p, the
\* signature validating or not, NODE_ENV being production or not: 403, or the
\* session is fetched, the empty TwiML sent and processMessageAsync started,
\* which pushes the user's turn before its first await.
handleWhatsAppWebhook(p, isValid, production) ==
  IF Rejected(isValid, production)
  THEN /\ lastResponse' = Response("403", Null, "none")
       /\ UNCHANGED <<sideVars, now, sessions, arrays, voiceSessions, connVars,
                      relayVars, budgetVars>>
  ELSE /\ nTurns < MaxTurns
       /\ nTurns' = nTurns + 1
       /\ sessions' = (p :> getSession(p)) @@ sessions
       /\ arrays' = [ArraysAfterGet(p) EXCEPT ![getSession(p).conversationHistory] =
                       Append(@, Said("user", nTurns + 1))]
       /\ lastResponse' = Response("twiml-message", Null, "none")
       /\ UNCHANGED <<sideVars, now, voiceSessions, connVars, relayVars,
                      nStarts, nFrames, nDeltas>>

\* whatsapp.js cleanupOldSessions, run by setInterval every ten minutes: the
\* messaging sessions idle for more than an hour are deleted. The clock counts
\* hours.
SESSION_TIMEOUT == 1

\* cleanupOldSessions deleting already at the timeout.
cleanupOldSessionsAtTimeout ==
  /\ sessions' = [p \in {q \in DOMAIN sessions :
                           ~(now - sessions[q].lastActivity >= SESSION_TIMEOUT)}
                    |-> sessions[p]]
  /\ UNCHANGED <<sideVars, now, arrays, voiceSessions, lastResponse, connVars, relayVars,
                 budgetVars>>

cleanupOldSessions ==
  /\ sessions' = [p \in {q \in DOMAIN sessions :
                           ~(now - sessions[q].lastActivity > SESSION_TIMEOUT)}
                    |-> sessions[p]]
  /\ UNCHANGED <<sideVars, now, arrays, voiceSessions, lastResponse, connVars, relayVars,
                 budgetVars>>

\* Date.now() moves on, up to limit
TickTo(limit) ==
  /\ now < limit
  /\ now' = now + 1
  /\ UNCHANGED <<sideVars, sessions, arrays, voiceSessions, lastResponse, connVars,
                 relayVars, budgetVars>>

Tick == TickTo(MaxTime)

\* ------------------------------------------------- Twilio media-stream socket
\* wss.on('connection'): the per-connection variables start as null.
TwilioConnect(c) ==
  /\ wsState[c] = "none"
  /\ wsState' = [wsState EXCEPT ![c] = "open"]
  /\ UNCHANGED <<sideVars, registryVars, streamSid, callSid, openAiWs, stopped, relayVars,
                 budgetVars>>

\* session?.conversationHistory && session.conversationHistory.length > 0
HasHistory(session) == session # Null /\ Len(arrays[session]) > 0

\* .filter(msg => msg.role === 'user').pop()
HasUserMessage(session) == \E i \in DOMAIN arrays[session] : arrays[session][i].role = "user"

\* FirstAwait asking the classifier whenever there is any history.
FirstAwaitAnyHistory(session) == IF HasHistory(session) THEN "routing" ELSE "importing"

\* connectToOpenAI up to its first await: routeToAgent is awaited only when the
\* history holds a user message, the dynamic import of 'ws' always.
FirstAwait(session) ==
  IF HasHistory(session) /\ HasUserMessage(session) THEN "routing" ELSE "importing"

\* let agentType = 'healthcare'
DefaultAgent == "healthcare"

\* What the classifier call of routeToAgent can produce: one of the five agent
\* names, some other text, or an exception.
ValidAgents == {"healthcare", "financial", "legal", "english", "general"}
ClassifierOutcomes == ValidAgents \cup {"unclear", "throws"}

\* agent.js routeToAgent: the name if it is a valid one, 'general' otherwise and
\* on any error.
routeToAgent(outcome) == IF outcome \in ValidAgents THEN outcome ELSE "general"

\* voice-config.js: the agents that have a voice prompt
AGENT_PROMPTS == {"healthcare", "financial", "legal"}

\* getVoiceInstructions without the fallback to the healthcare prompt.
getVoiceInstructionsNoFallback(agentType) == agentType

\* getVoiceInstructions: AGENT_PROMPTS[agentType] || AGENT_PROMPTS.healthcare,
\* named by the agent whose prompt it is.
getVoiceInstructions(agentType) ==
  IF agentType \in AGENT_PROMPTS THEN agentType ELSE "healthcare"

\* voiceSessions.get(callSid): the entry, of which the relay reads the history
SessionOf(cs) ==
  IF cs \in DOMAIN voiceSessions THEN voiceSessions[cs].conversationHistory ELSE Null

\* case 'start'
TwilioStart(c) ==
  /\ wsState[c] = "open"
  /\ SumOver(nStarts, Conns) < MaxStarts
  /\ nStarts' = [nStarts EXCEPT ![c] = @ + 1]
  /\ streamSid' = [streamSid EXCEPT ![c] = StreamSidOf(c)]
  /\ callSid' = [callSid EXCEPT ![c] = c]
  /\ invocations' = Append(invocations,
        [conn |-> c, session |-> SessionOf(c), pc |-> FirstAwait(SessionOf(c)),
         routed |-> FirstAwait(SessionOf(c)) = "routing", classifier |-> "none",
         agentType |-> DefaultAgent,
         instructions |-> getVoiceInstructions(DefaultAgent)])
  /\ UNCHANGED <<sideVars, registryVars, wsState, openAiWs, stopped, socks, toTwilio, mediaIn,
                 deltaIn, nFrames, nDeltas, nTurns>>

\* if (openAiWs && openAiWs.readyState === 1)
Forwarding(c) == openAiWs[c] # Null /\ socks[openAiWs[c]].readyState = OPEN

\* The call of connection c has an OpenAI socket that is open.
Bridging(c) == \E s \in DOMAIN socks : socks[s].owner = c /\ socks[s].readyState = OPEN

\* MediaForward with the OpenAI socket kept in one variable shared by all
\* connections (the socket created last) instead of the connection's own.
MediaForwardShared(c, p) ==
  IF socks # <<>> /\ socks[Len(socks)].readyState = OPEN
  THEN OpenAiSend(socks, Len(socks), AudioAppend(p))
  ELSE socks

\* case 'media'
MediaForward(c, p) ==
  IF Forwarding(c) THEN OpenAiSend(socks, openAiWs[c], AudioAppend(p)) ELSE socks

\* Twilio delivers 'start' before any 'media' or 'stop' of the stream.
Started(c) == nStarts[c] > 0

TwilioMedia(c, p) ==
  /\ wsState[c] = "open"
  /\ Started(c)
  /\ nFrames < MaxFrames
  /\ nFrames' = nFrames + 1
  /\ socks' = MediaForward(c, p)
  /\ mediaIn' = [mediaIn EXCEPT ![c] = Append(@, [payload |-> p, bridging |-> Bridging(c)])]
  /\ UNCHANGED <<sideVars, registryVars, connVars, invocations, toTwilio, deltaIn, nStarts,
                 nDeltas, nTurns>>

\* if (openAiWs) openAiWs.close()
CloseOpenAi(c) == IF openAiWs[c] # Null THEN WsClose(socks, openAiWs[c]) ELSE socks

\* case 'stop'
TwilioStop(c) ==
  /\ wsState[c] = "open"
  /\ Started(c)
  /\ ~stopped[c]
  /\ stopped' = [stopped EXCEPT ![c] = TRUE]
  /\ socks' = CloseOpenAi(c)
  /\ UNCHANGED <<sideVars, registryVars, wsState, streamSid, callSid, openAiWs, invocations,
                 toTwilio, mediaIn, deltaIn, budgetVars>>

\* ws.on('close')
TwilioClose(c) ==
  /\ wsState[c] = "open"
  /\ wsState' = [wsState EXCEPT ![c] = "closed"]
  /\ socks' = CloseOpenAi(c)
  /\ UNCHANGED <<sideVars, registryVars, streamSid, callSid, openAiWs, stopped, invocations,
                 toTwilio, mediaIn, deltaIn, budgetVars>>

\* ------------------------------------------------------------ connectToOpenAI
\* RouterReturns with the instructions read before the router was asked.
RouterReturnsStaleInstructions(i, outcome) ==
  /\ i \in DOMAIN invocations
  /\ invocations[i].pc = "routing"
  /\ invocations' = [invocations EXCEPT
        ![i].pc = "importing",
        ![i].classifier = outcome,
        ![i].agentType = routeToAgent(outcome)]
  /\ UNCHANGED <<sideVars, registryVars, connVars, socks, toTwilio, mediaIn, deltaIn, budgetVars>>

\* await routeToAgent(lastUserMessage.content) returns (it never throws), the
\* classifier having produced outcome; the instructions are read before the
\* next await.
RouterReturns(i, outcome) ==
  /\ i \in DOMAIN invocations
  /\ invocations[i].pc = "routing"
  /\ invocations' = [invocations EXCEPT
        ![i].pc = "importing",
        ![i].classifier = outcome,
        ![i].agentType = routeToAgent(outcome),
        ![i].instructions = getVoiceInstructions(routeToAgent(outcome))]
  /\ UNCHANGED <<sideVars, registryVars, connVars, socks, toTwilio, mediaIn, deltaIn, budgetVars>>

NewSocket(inv) ==
  [owner |-> inv.conn, session |-> inv.session, routed |-> inv.routed,
   agentType |-> inv.agentType, instructions |-> inv.instructions, readyState |-> CONNECTING, opened |-> FALSE,
   closeCalled |-> FALSE, timer |-> FALSE, sent |-> <<>>]

\* await import('ws') resolves: openAiWs = new WebSocket(...), handlers registered
ImportResolves(i) ==
  /\ i \in DOMAIN invocations
  /\ invocations[i].pc = "importing"
  /\ socks' = Append(socks, NewSocket(invocations[i]))
  /\ openAiWs' = [openAiWs EXCEPT ![invocations[i].conn] = Len(socks) + 1]
  /\ invocations' = RemoveAt(invocations, i)
  /\ UNCHANGED <<sideVars, registryVars, wsState, streamSid, callSid, stopped, toTwilio,
                 mediaIn, deltaIn, budgetVars>>

\* OpenHandler with the history injected before the session is configured.
OpenHandlerContextFirst(ss, s) ==
  LET t == openAiWs[ss[s].owner]
      primed == IF HasHistory(ss[s].session)
                THEN [OpenAiSend(ss, t, ContextItem(arrays[ss[s].session]))
                        EXCEPT ![s].timer = TRUE]
                ELSE ss
  IN IF SendThrows(ss, t) THEN ss
     ELSE OpenAiSend(primed, t, SessionUpdate(ss[s].instructions))

\* openAiWs.on('open') of socket s. Every send in the handler goes through the
\* connection's variable openAiWs, read when the line runs.
OpenHandler(ss, s) ==
  LET t == openAiWs[ss[s].owner]
      configured == OpenAiSend(ss, t, SessionUpdate(ss[s].instructions))
  IN IF SendThrows(ss, t) THEN ss
     ELSE IF HasHistory(ss[s].session)
          THEN [OpenAiSend(configured, t, ContextItem(arrays[ss[s].session]))
                  EXCEPT ![s].timer = TRUE]
          ELSE configured

OpenAiOpen(s) ==
  /\ s \in DOMAIN socks
  /\ socks[s].readyState = CONNECTING
  /\ socks' = OpenHandler([socks EXCEPT ![s].readyState = OPEN, ![s].opened = TRUE], s)
  /\ UNCHANGED <<sideVars, registryVars, connVars, invocations, toTwilio, mediaIn, deltaIn,
                 budgetVars>>

\* the 100 ms setTimeout of the open handler expires: response.create is sent
TimerHandler(ss, s) ==
  LET t == openAiWs[ss[s].owner]
      cleared == [ss EXCEPT ![s].timer = FALSE]
  IN IF SendThrows(ss, t) THEN cleared ELSE OpenAiSend(cleared, t, ResponseCreate)

OpenAiTimer(s) ==
  /\ s \in DOMAIN socks
  /\ socks[s].timer
  /\ socks' = TimerHandler(socks, s)
  /\ UNCHANGED <<sideVars, registryVars, connVars, invocations, toTwilio, mediaIn, deltaIn,
                 budgetVars>>

\* A socket delivers 'message' events from its 'open' event until its 'close'
\* event, also while it is CLOSING.
Receiving(s) == socks[s].opened /\ socks[s].readyState \in {OPEN, CLOSING}

\* case 'response.audio.delta'
MediaFrame(c, delta) == [event |-> "media", streamSid |-> streamSid[c], payload |-> delta]

\* DeltaForward with the Twilio socket and StreamSid kept in variables shared by
\* all connections (those of the socket created last).
DeltaForwardShared(s, delta) ==
  TwilioSend(socks[Len(socks)].owner, MediaFrame(socks[Len(socks)].owner, delta))

DeltaForward(s, delta) == TwilioSend(socks[s].owner, MediaFrame(socks[s].owner, delta))

OpenAiAudioDelta(s, delta) ==
  /\ s \in DOMAIN socks
  /\ Receiving(s)
  /\ nDeltas < MaxDeltas
  /\ nDeltas' = nDeltas + 1
  /\ toTwilio' = DeltaForward(s, delta)
  /\ deltaIn' = [deltaIn EXCEPT ![socks[s].owner] =
        Append(@, [delta |-> delta, twilioOpen |-> wsState[socks[s].owner] = "open"])]
  /\ UNCHANGED <<sideVars, registryVars, connVars, invocations, socks, mediaIn, nStarts,
                 nFrames, nTurns>>

\* case 'conversation.item.input_audio_transcription.completed' (role "user") and
\* case 'response.done' with a text output (role "assistant"): if (session) push
OpenAiTranscript(s, role) ==
  /\ s \in DOMAIN socks
  /\ Receiving(s)
  /\ nTurns < MaxTurns
  /\ nTurns' = nTurns + 1
  /\ arrays' = IF socks[s].session # Null
               THEN [arrays EXCEPT ![socks[s].session] = Append(@, Said(role, nTurns + 1))]
               ELSE arrays
  /\ UNCHANGED <<sideVars, now, sessions, voiceSessions, lastResponse, connVars, relayVars,
                 nStarts, nFrames, nDeltas>>

\* case 'response.done' whose output holds no content of type 'text' (the
\* content of a spoken response has type 'audio'): assistantMessage is the empty
\* string and nothing is pushed. nTurns counts the completed turns received.
OpenAiAudioResponseDone(s) ==
  /\ s \in DOMAIN socks
  /\ Receiving(s)
  /\ nTurns < MaxTurns
  /\ nTurns' = nTurns + 1
  /\ UNCHANGED <<sideVars, registryVars, connVars, relayVars, nStarts, nFrames, nDeltas>>

\* openAiWs.on('close') / on('error'): the socket is gone; the handlers only log
OpenAiClosed(s) ==
  /\ s \in DOMAIN socks
  /\ socks[s].readyState # CLOSED
  /\ socks' = [socks EXCEPT ![s].readyState = CLOSED]
  /\ UNCHANGED <<sideVars, registryVars, connVars, invocations, toTwilio, mediaIn, deltaIn,
                 budgetVars>>

\* ------------------------------------------- conversation store (supabase.js)
\* The conversation ids the agent runs produce.
ConvIds == 1..MaxConvs

\* In the specifications of the store the clock counts periods of thirty days:
\* thirtyDaysAgo is now - 1.
THIRTY_DAYS == 1

Row(p, id, agent) ==
  [phone_number |-> p, conversation_id |-> id, last_agent |-> agent,
   last_activity |-> now]

RowsOf(rows, p) == {r \in rows : r.phone_number = p}

\* An insert that ignores the row the phone number already has.
Insert(rows, row) == rows \cup {row}

\* .upsert(row, {onConflict: 'phone_number'}) on a table where phone_number is
\* UNIQUE: the row of that phone number is replaced, or the row is added.
Upsert(rows, row) == {r \in rows : r.phone_number # row.phone_number} \cup {row}

\* What getConversation returns: the fields, and whether it threw instead.
NoConversation == [conversationId |-> Null, lastAgent |-> "", threw |-> FALSE]

\* getConversation letting the error of a failed query out.
getConversationRethrowing(p, ok) ==
  IF ~supabase THEN NoConversation
  ELSE IF ~ok THEN [NoConversation EXCEPT !.threw = TRUE]
  ELSE IF Cardinality(RowsOf(store, p)) # 1 THEN NoConversation
  ELSE LET r == CHOOSE x \in RowsOf(store, p) : TRUE IN
       [conversationId |-> r.conversation_id, lastAgent |-> r.last_agent,
        threw |-> FALSE]

\* getConversation(phoneNumber), the query succeeding (ok) or failing: without a
\* client, on an error and when .single() finds no single row, the nulls.
getConversation(p, ok) ==
  IF ~supabase \/ ~ok \/ Cardinality(RowsOf(store, p)) # 1 THEN NoConversation
  ELSE LET r == CHOOSE x \in RowsOf(store, p) : TRUE IN
       [conversationId |-> r.conversation_id, lastAgent |-> r.last_agent,
        threw |-> FALSE]

\* SavedStore keeping the row a phone number already has.
SavedStoreFirstWins(p, id, agent, ok) ==
  IF supabase /\ ok /\ RowsOf(store, p) = {} THEN Upsert(store, Row(p, id, agent))
  ELSE store

\* The table after saveConversation(phoneNumber, conversationId, agentName)
SavedStore(p, id, agent, ok) ==
  IF supabase /\ ok THEN Upsert(store, Row(p, id, agent)) ELSE store

StoreOp(fn, p, ok) ==
  [fn |-> fn, phone |-> p, rowsBefore |-> Cardinality(RowsOf(store, p)),
   failed |-> ~(supabase /\ ok)]

saveConversation(p, id, agent, ok) ==
  /\ store' = SavedStore(p, id, agent, ok)
  /\ lastOp' = StoreOp("saveConversation", p, ok)
  /\ UNCHANGED <<registryVars, connVars, relayVars, budgetVars, hookVars, userVars,
               supabase, chats>>

deleteConversation(p, ok) ==
  /\ store' = IF supabase /\ ok THEN store \ RowsOf(store, p) ELSE store
  /\ lastOp' = StoreOp("deleteConversation", p, ok)
  /\ UNCHANGED <<registryVars, connVars, relayVars, budgetVars, hookVars, userVars,
               supabase, chats>>

\* .delete().lt('last_activity', thirtyDaysAgo)
cleanupOldConversations(ok) ==
  /\ store' = IF supabase /\ ok
              THEN {r \in store : ~(r.last_activity < now - THIRTY_DAYS)}
              ELSE store
  /\ lastOp' = StoreOp("cleanupOldConversations", Null, ok)
  /\ UNCHANGED <<registryVars, connVars, relayVars, budgetVars, hookVars, userVars,
               supabase, chats>>

\* -------------------------------------------------- POST /api/chat (server.js)
\* What runAgent hands to run() of the conversation id in its options: the
\* options are destructured into silent, conversationHistory and files only.
runAgentContinuesFrom(conversationId) == Null

\* a request with a valid prompt arrives; the body may carry no phoneNumber
ChatArrives(p) ==
  /\ Len(chats) < MaxChats
  /\ chats' = Append(chats,
       [phone |-> p, pc |-> IF p # Undefined THEN "getting" ELSE "routing",
        existing |-> Null, getFailed |-> FALSE, agent |-> "", continuedFrom |-> Null,
        resultId |-> Null, saveFailed |-> FALSE, status |-> "pending"])
  /\ UNCHANGED <<registryVars, connVars, relayVars, budgetVars, hookVars, userVars,
               supabase, store, lastOp>>

\* await getConversation(phoneNumber) returns (or throws, which the handler's
\* catch answers with 500)
ChatGot(r, ok) ==
  /\ r \in DOMAIN chats
  /\ chats[r].pc = "getting"
  /\ LET got == getConversation(chats[r].phone, ok) IN
     chats' = IF got.threw
              THEN [chats EXCEPT ![r].pc = "done", ![r].status = "500",
                                 ![r].getFailed = TRUE]
              ELSE [chats EXCEPT ![r].pc = "routing",
                                 ![r].existing = got.conversationId,
                                 ![r].getFailed = ~(supabase /\ ok)]
  /\ lastOp' = StoreOp("getConversation", chats[r].phone, ok)
  /\ UNCHANGED <<registryVars, connVars, relayVars, budgetVars, hookVars, userVars,
               supabase, store>>

\* await routeToAgent(prompt) returns
ChatRouted(r, outcome) ==
  /\ r \in DOMAIN chats
  /\ chats[r].pc = "routing"
  /\ chats' = [chats EXCEPT ![r].pc = "running", ![r].agent = routeToAgent(outcome)]
  /\ UNCHANGED <<registryVars, connVars, relayVars, budgetVars, hookVars, userVars,
               supabase, store, lastOp>>

\* await runAgent(selectedAgent, prompt, {silent, files, conversationId}) returns:
\* result.conversationId is response.conversationId || null, and null when run()
\* failed. Without it, or without a phone number, the response is sent.
ChatRan(r, id) ==
  /\ r \in DOMAIN chats
  /\ chats[r].pc = "running"
  /\ chats' = [chats EXCEPT
        ![r].continuedFrom = runAgentContinuesFrom(chats[r].existing),
        ![r].resultId = id,
        ![r].pc = IF chats[r].phone # Undefined /\ id # Null THEN "saving" ELSE "done",
        ![r].status = IF chats[r].phone # Undefined /\ id # Null
                      THEN "pending" ELSE "200"]
  /\ UNCHANGED <<registryVars, connVars, relayVars, budgetVars, hookVars, userVars,
               supabase, store, lastOp>>

\* await saveConversation(phoneNumber, result.conversationId, selectedAgent)
\* returns; res.json
ChatSaved(r, ok) ==
  /\ r \in DOMAIN chats
  /\ chats[r].pc = "saving"
  /\ store' = SavedStore(chats[r].phone, chats[r].resultId, chats[r].agent, ok)
  /\ lastOp' = StoreOp("saveConversation", chats[r].phone, ok)
  /\ chats' = [chats EXCEPT ![r].pc = "done", ![r].status = "200",
                            ![r].saveFailed = ~(supabase /\ ok)]
  /\ UNCHANGED <<registryVars, connVars, relayVars, budgetVars, hookVars, userVars,
               supabase>>

\* ----------------------------------- web voice hook (use-voice-agent.ts)
mainVars == <<registryVars, connVars, relayVars, budgetVars, storeVars>>

HookCall(fn, pc, session) == [fn |-> fn, pc |-> pc, session |-> session]

\* connect() up to its first await: setStatus('connecting'); await fetch
connect ==
  /\ Len(hookCalls) < MaxHookCalls
  /\ hookStatus' = "connecting"
  /\ hookCalls' = Append(hookCalls, HookCall("connect", "fetching", Null))
  /\ UNCHANGED <<mainVars, userVars, sessionRef, hookSessions>>

\* the token request returns. Not ok (a bad status or a malformed token): the
\* catch block sets status 'disconnected'. Ok: the session is created, stored in
\* sessionRef.current, and session.connect awaited.
ConnectFetched(k, ok) ==
  /\ k \in DOMAIN hookCalls
  /\ hookCalls[k].pc = "fetching"
  /\ IF ok
     THEN /\ hookSessions' = Append(hookSessions, "created")
          /\ sessionRef' = Len(hookSessions) + 1
          /\ hookCalls' = [hookCalls EXCEPT ![k].pc = "connecting",
                                            ![k].session = Len(hookSessions) + 1]
          /\ UNCHANGED hookStatus
     ELSE /\ hookStatus' = "disconnected"
          /\ hookCalls' = [hookCalls EXCEPT ![k].pc = "done"]
          /\ UNCHANGED <<sessionRef, hookSessions>>
  /\ UNCHANGED <<mainVars, userVars>>

\* await session.connect(...) returns, or throws into the catch block. With a
\* conversation history the context is injected through awaited sends; without
\* one the function goes on to setStatus('connected').
SessionConnected(k, ok, history) ==
  /\ k \in DOMAIN hookCalls
  /\ hookCalls[k].pc = "connecting"
  /\ IF ok
     THEN /\ hookSessions' = [hookSessions EXCEPT ![hookCalls[k].session] =
                                IF @ = "closed" THEN "closed" ELSE "open"]
          /\ hookCalls' = [hookCalls EXCEPT ![k].pc = IF history THEN "injecting" ELSE "done"]
          /\ hookStatus' = IF history THEN hookStatus ELSE "connected"
     ELSE /\ hookStatus' = "disconnected"
          /\ hookCalls' = [hookCalls EXCEPT ![k].pc = "done"]
          /\ UNCHANGED hookSessions
  /\ UNCHANGED <<mainVars, userVars, sessionRef>>

\* the awaited sends of the context item and of response.create are over (an
\* error of theirs is caught and logged): setStatus('connected')
HistoryInjected(k) ==
  /\ k \in DOMAIN hookCalls
  /\ hookCalls[k].pc = "injecting"
  /\ hookStatus' = "connected"
  /\ hookCalls' = [hookCalls EXCEPT ![k].pc = "done"]
  /\ UNCHANGED <<mainVars, userVars, sessionRef, hookSessions>>

\* disconnect() up to its await: with a session in sessionRef.current its
\* transport is closed and the close awaited; without one the function runs to
\* its end, setStatus('disconnected').
disconnect ==
  /\ Len(hookCalls) < MaxHookCalls
  /\ IF sessionRef # Null
     THEN /\ hookSessions' = [hookSessions EXCEPT ![sessionRef] = "closed"]
          /\ hookCalls' = Append(hookCalls, HookCall("disconnect", "closing", sessionRef))
          /\ UNCHANGED hookStatus
     ELSE /\ hookStatus' = "disconnected"
          /\ hookCalls' = Append(hookCalls, HookCall("disconnect", "done", Null))
          /\ UNCHANGED hookSessions
  /\ UNCHANGED <<mainVars, userVars, sessionRef>>

\* await transport.close() returns: sessionRef.current = null;
\* setStatus('disconnected')
DisconnectClosed(k) ==
  /\ k \in DOMAIN hookCalls
  /\ hookCalls[k].pc = "closing"
  /\ sessionRef' = Null
  /\ hookStatus' = "disconnected"
  /\ hookCalls' = [hookCalls EXCEPT ![k].pc = "done"]
  /\ UNCHANGED <<mainVars, userVars, hookSessions>>

\* ---------------------------------------------------- users (database.js)
\* A phone number is a sequence of characters: the digits 0..9, the plus sign
\* and punctuation.
PLUS == 10
PUNCT == 11

IsDigit(ch) == ch \in 0..9

\* normalizePhoneNumber: the digits are kept; eleven digits starting with 1 and
\* more than ten digits get a plus sign, ten digits get +1, anything else is
\* returned as it was given.
normalizePhoneNumber(phoneNumber) ==
  LET cleaned == SelectSeq(phoneNumber, IsDigit) IN
  IF Len(cleaned) = 11 /\ Head(cleaned) = 1 THEN <<PLUS>> \o cleaned
  ELSE IF Len(cleaned) = 10 THEN <<PLUS, 1>> \o cleaned
  ELSE IF Len(cleaned) > 10 THEN <<PLUS>> \o cleaned
  ELSE phoneNumber

\* Phone numbers as the form can submit them: one number written in four ways,
\* another number, and a number too short to parse.
TenDigits == <<2, 0, 2, 5, 5, 5, 0, 1, 0, 1>>
Formatted == <<PUNCT, 2, 0, 2, PUNCT, PUNCT, 5, 5, 5, PUNCT, 0, 1, 0, 1>>
RawPhones ==
  {TenDigits, Formatted, <<1>> \o TenDigits, <<PLUS, 1>> \o TenDigits,
   <<2, 0, 2, 5, 5, 5, 0, 1, 0, 2>>, <<5, 5, 5>>}

UserRowsOf(phone) == {r \in users : r.phone_number = phone}

\* createOrGetUser(phoneNumber) up to its first await, the select
createOrGetUser(phoneNumber) ==
  /\ Len(userCalls) < MaxUserCalls
  /\ userCalls' = Append(userCalls,
       [phone |-> normalizePhoneNumber(phoneNumber), pc |-> "selecting", result |-> <<>>])
  /\ UNCHANGED <<mainVars, hookVars, users>>

\* the select with .single() returns: a row, and the update of last_login is
\* awaited; or no row, and the insert is awaited
UserSelected(k) ==
  /\ k \in DOMAIN userCalls
  /\ userCalls[k].pc = "selecting"
  /\ userCalls' =
       IF Cardinality(UserRowsOf(userCalls[k].phone)) = 1
       THEN [userCalls EXCEPT ![k].pc = "updating",
               ![k].result = <<CHOOSE r \in UserRowsOf(userCalls[k].phone) : TRUE>>]
       ELSE [userCalls EXCEPT ![k].pc = "inserting"]
  /\ UNCHANGED <<mainVars, hookVars, users>>

\* the update returns: return existingUser
UserUpdated(k) ==
  /\ k \in DOMAIN userCalls
  /\ userCalls[k].pc = "updating"
  /\ userCalls' = [userCalls EXCEPT ![k].pc = "returned"]
  /\ UNCHANGED <<mainVars, hookVars, users>>

\* the insert returns: phone_number is UNIQUE, so with a row of that number in
\* the table createError is set and thrown; otherwise the new row is returned
UserInserted(k) ==
  /\ k \in DOMAIN userCalls
  /\ userCalls[k].pc = "inserting"
  /\ IF UserRowsOf(userCalls[k].phone) # {}
     THEN /\ userCalls' = [userCalls EXCEPT ![k].pc = "threw"]
          /\ UNCHANGED users
     ELSE LET row == [id |-> Cardinality(users) + 1, phone_number |-> userCalls[k].phone] IN
          /\ users' = users \cup {row}
          /\ userCalls' = [userCalls EXCEPT ![k].pc = "returned", ![k].result = <<row>>]
  /\ UNCHANGED <<mainVars, hookVars>>

\* -------------------------------------------------------------- specification
\* The registry once the webhook of call c, made from phone c, has been handled
\* (handleWhatsAppVoiceCall).
EntryAfterWebhook(c) ==
  [phoneNumber |-> c, conversationHistory |-> c, lastActivity |-> 0,
   voiceCallActive |-> TRUE, callSid |-> c, startTime |-> 0]

SessionAfterWebhook(p) ==
  [phoneNumber |-> p, conversationHistory |-> p, lastActivity |-> 0,
   voiceCallActive |-> TRUE]

\* What a caller's history can hold when the call starts: nothing, a text
\* message (TextMessage), or only the greeting of an earlier call.
PriorHistories == {<<>>, <<Turn("user")>>, <<Turn("assistant")>>}

RelayInit ==
  /\ now = 0
  /\ lastResponse = [kind |-> "none", callSid |-> Null, status |-> "none",
                     hadEntry |-> FALSE]
  /\ streamSid = [c \in Conns |-> Null]
  /\ callSid = [c \in Conns |-> Null]
  /\ openAiWs = [c \in Conns |-> Null]
  /\ stopped = [c \in Conns |-> FALSE]
  /\ invocations = <<>>
  /\ socks = <<>>
  /\ toTwilio = [c \in Conns |-> <<>>]
  /\ mediaIn = [c \in Conns |-> <<>>]
  /\ deltaIn = [c \in Conns |-> <<>>]
  /\ nStarts = [c \in Conns |-> 0]
  /\ nFrames = 0
  /\ nDeltas = 0
  /\ nTurns = 0
  /\ chats = <<>>
  /\ lastOp = [fn |-> "none", phone |-> Null, rowsBefore |-> 0, failed |-> FALSE]
  /\ hookStatus = "disconnected"
  /\ sessionRef = Null
  /\ hookSessions = <<>>
  /\ hookCalls = <<>>
  /\ users = {}
  /\ userCalls = <<>>

\* One call at a time: connection 1 carries the only call.
Solo == {1}

\* The store of a server whose credentials are set and that has saved nothing.
EmptyStore == supabase = TRUE /\ store = {}

Init ==
  /\ RelayInit
  /\ EmptyStore
  /\ wsState = [c \in Conns |-> "none"]
  /\ sessions = [p \in Conns |-> SessionAfterWebhook(p)]
  /\ \E h \in PriorHistories : arrays = [p \in Conns |-> IF p \in Solo THEN h ELSE <<>>]
  /\ voiceSessions = [c \in Solo |-> EntryAfterWebhook(c)]

MaxSocks == MaxStarts

\* The relay's events do not depend on the agent chosen: where only the relay is
\* studied the classifier names one agent.
RelayOutcomes == {"financial"}

RelayNext(C) ==
  \/ \E c \in C : TwilioConnect(c)
  \/ \E c \in C : TwilioStart(c)
  \/ \E c \in C : TwilioMedia(c, nFrames + 1)
  \/ \E c \in C : TwilioStop(c)
  \/ \E c \in C : TwilioClose(c)
  \/ \E i \in 1..MaxSocks, o \in RelayOutcomes : RouterReturns(i, o)
  \/ \E i \in 1..MaxSocks : ImportResolves(i)
  \/ \E s \in 1..MaxSocks : OpenAiOpen(s)
  \/ \E s \in 1..MaxSocks : OpenAiTimer(s)
  \/ \E s \in 1..MaxSocks : OpenAiAudioDelta(s, nDeltas + 1)
  \/ \E s \in 1..MaxSocks, r \in {"user", "assistant"} : OpenAiTranscript(s, r)
  \/ \E s \in 1..MaxSocks : OpenAiClosed(s)

Next == RelayNext(Solo)

Spec == Init /\ [][Next]_vars

\* Two calls at once: both media-stream connections are accepted, and each is
\* started once, as Twilio does.
PairHistories == {<<>>, <<Turn("user")>>}

PairInit ==
  /\ RelayInit
  /\ EmptyStore
  /\ wsState = [c \in Conns |-> "open"]
  /\ sessions = [p \in Conns |-> SessionAfterWebhook(p)]
  /\ \E h \in PairHistories : arrays = [p \in Conns |-> h]
  /\ voiceSessions = [c \in Conns |-> EntryAfterWebhook(c)]

FirstStart(c) == nStarts[c] = 0 /\ TwilioStart(c)

PairNext ==
  \/ \E c \in Conns : FirstStart(c)
  \/ \E c \in Conns : TwilioMedia(c, nFrames + 1)
  \/ \E c \in Conns : TwilioStop(c)
  \/ \E c \in Conns : TwilioClose(c)
  \/ \E i \in 1..MaxSocks, o \in RelayOutcomes : RouterReturns(i, o)
  \/ \E i \in 1..MaxSocks : ImportResolves(i)
  \/ \E s \in 1..MaxSocks : OpenAiOpen(s)
  \/ \E s \in 1..MaxSocks : OpenAiTimer(s)
  \/ \E s \in 1..MaxSocks : OpenAiAudioDelta(s, nDeltas + 1)
  \/ \E s \in 1..MaxSocks : OpenAiClosed(s)

PairSpec == PairInit /\ [][PairNext]_vars

\* The relay's own steps run whenever they are due: a resolved await resumes and
\* an expired timer fires. Nothing is assumed of Twilio or OpenAI.
RelaySteps ==
  \/ \E i \in 1..MaxSocks, o \in ClassifierOutcomes : RouterReturns(i, o)
  \/ \E i \in 1..MaxSocks : ImportResolves(i)
  \/ \E s \in 1..MaxSocks : OpenAiTimer(s)

\* One call whose stream is started once and whose status callbacks may arrive,
\* with the relay's steps fair.
OneStartNext ==
  \/ \E cs \in Solo, st \in CallStatuses : handleVoiceCallStatus(cs, st)
  \/ \E c \in Solo : TwilioConnect(c)
  \/ \E c \in Solo : FirstStart(c)
  \/ \E c \in Solo : TwilioMedia(c, nFrames + 1)
  \/ \E c \in Solo : TwilioStop(c)
  \/ \E c \in Solo : TwilioClose(c)
  \/ \E i \in 1..MaxSocks, o \in ClassifierOutcomes : RouterReturns(i, o)
  \/ \E i \in 1..MaxSocks : ImportResolves(i)
  \/ \E s \in 1..MaxSocks : OpenAiOpen(s)
  \/ \E s \in 1..MaxSocks : OpenAiTimer(s)
  \/ \E s \in 1..MaxSocks : OpenAiAudioDelta(s, nDeltas + 1)
  \/ \E s \in 1..MaxSocks, r \in {"user", "assistant"} : OpenAiTranscript(s, r)
  \/ \E s \in 1..MaxSocks : OpenAiClosed(s)

FairSpec == Init /\ [][OneStartNext]_vars /\ WF_vars(RelaySteps)

\* The same call with, besides, Twilio closing its stream in the end and every
\* closing handshake of an OpenAI socket completing. Status callbacks may still
\* never arrive.
TwilioHangsUp == \E c \in Solo : TwilioClose(c)

HandshakeCompletes ==
  \E s \in 1..MaxSocks :
    s \in DOMAIN socks /\ socks[s].readyState = CLOSING /\ OpenAiClosed(s)

DrainSpec ==
  /\ Init /\ [][OneStartNext]_vars
  /\ WF_vars(RelaySteps) /\ WF_vars(TwilioHangsUp) /\ WF_vars(HandshakeCompletes)

\* The same call with a classifier that may never answer: of the relay's steps
\* only those that do not wait for it are fair.
StepsAfterRouting ==
  \/ \E i \in 1..MaxSocks : ImportResolves(i)
  \/ \E s \in 1..MaxSocks : OpenAiTimer(s)

SilentSpec == Init /\ [][OneStartNext]_vars /\ WF_vars(StepsAfterRouting)

\* The registry alone: the two webhooks of whatsapp-voice.js, the text path and
\* the clock, from a server that has just started.
RegInit ==
  /\ RelayInit
  /\ EmptyStore
  /\ wsState = [c \in Conns |-> "none"]
  /\ sessions = <<>>
  /\ arrays = <<>>
  /\ voiceSessions = <<>>

RegNext ==
  \/ Tick
  \/ \E cs \in CallSids \cup {Undefined}, p \in Phones \cup {Undefined} :
       handleWhatsAppVoiceCall(cs, p)
  \/ \E cs \in CallSids, p \in Phones : handleWhatsAppVoiceCallThrowing(cs, p)
  \/ \E cs \in CallSids, st \in CallStatuses : handleVoiceCallStatus(cs, st)
  \/ \E p \in Phones : TextMessage(p)

RegSpec == RegInit /\ [][RegNext]_vars

\* The registry over the hours: the clock advances and the sweep of whatsapp.js
\* runs at its interval, while calls arrive and end.
SweepNext ==
  \/ TickTo(MaxIdle)
  \/ cleanupOldSessions
  \/ \E cs \in CallSids, p \in Phones : handleWhatsAppVoiceCall(cs, p)
  \/ \E cs \in CallSids : handleVoiceCallStatus(cs, "completed")
  \/ \E p \in Phones : TextMessage(p)

SweepSpec ==
  /\ RegInit /\ [][SweepNext]_vars
  /\ WF_vars(TickTo(MaxIdle)) /\ WF_vars(cleanupOldSessions)

\* The message webhook with signed and unsigned requests, in production and
\* outside it, beside the voice webhook, the clock and the sweep.
MsgNext ==
  \/ TickTo(MaxIdle)
  \/ cleanupOldSessions
  \/ \E p \in Phones, isValid \in BOOLEAN, production \in BOOLEAN :
       handleWhatsAppWebhook(p, isValid, production)
  \/ \E cs \in CallSids, p \in Phones : handleWhatsAppVoiceCall(cs, p)

MsgSpec == RegInit /\ [][MsgNext]_vars

\* The hook of the web voice agent: connect() and disconnect() called in any
\* order, also while earlier calls are suspended.
HookNext ==
  \/ connect
  \/ disconnect
  \/ \E k \in 1..MaxHookCalls, ok \in BOOLEAN : ConnectFetched(k, ok)
  \/ \E k \in 1..MaxHookCalls, ok \in BOOLEAN, history \in BOOLEAN :
       SessionConnected(k, ok, history)
  \/ \E k \in 1..MaxHookCalls : HistoryInjected(k)
  \/ \E k \in 1..MaxHookCalls : DisconnectClosed(k)

HookSpec == RegInit /\ [][HookNext]_vars

\* The phone form submitted several times, also concurrently.
UsersNext ==
  \/ \E phoneNumber \in RawPhones : createOrGetUser(phoneNumber)
  \/ \E k \in 1..MaxUserCalls : UserSelected(k)
  \/ \E k \in 1..MaxUserCalls : UserUpdated(k)
  \/ \E k \in 1..MaxUserCalls : UserInserted(k)

UsersSpec == RegInit /\ [][UsersNext]_vars

\* The store's functions called in any order, as the months pass.
StoreInit ==
  /\ RelayInit
  /\ wsState = [c \in Conns |-> "none"]
  /\ sessions = <<>>
  /\ arrays = <<>>
  /\ voiceSessions = <<>>
  /\ supabase \in BOOLEAN
  /\ store = {}

StoreNext ==
  \/ TickTo(MaxIdle)
  \/ \E p \in Phones, id \in ConvIds, ok \in BOOLEAN :
       saveConversation(p, id, "legal", ok)
  \/ \E p \in Phones, ok \in BOOLEAN : deleteConversation(p, ok)
  \/ \E ok \in BOOLEAN : cleanupOldConversations(ok)

StoreSpec == StoreInit /\ [][StoreNext]_vars

\* ... with time passing for sure. No caller of cleanupOldConversations exists
\* in the server, so nothing says it ever runs.
AgingSpec == StoreInit /\ [][StoreNext]_vars /\ WF_vars(TickTo(MaxIdle))

\* The chat endpoint: requests of known and unknown callers arrive and go
\* through their awaits, over a store that may already hold a row for phone 1.
ChatOutcomes == {"legal", "unclear"}

ChatInit ==
  /\ RelayInit
  /\ wsState = [c \in Conns |-> "none"]
  /\ sessions = <<>>
  /\ arrays = <<>>
  /\ voiceSessions = <<>>
  /\ supabase \in BOOLEAN
  /\ store \in {{}, {Row(1, MaxConvs, "legal")}}

ChatNext ==
  \/ \E p \in Phones \cup {Undefined} : ChatArrives(p)
  \/ \E r \in 1..MaxChats, ok \in BOOLEAN : ChatGot(r, ok)
  \/ \E r \in 1..MaxChats, o \in ChatOutcomes : ChatRouted(r, o)
  \/ \E r \in 1..MaxChats, id \in ConvIds \cup {Null} : ChatRan(r, id)
  \/ \E r \in 1..MaxChats, ok \in BOOLEAN : ChatSaved(r, ok)

ChatSpec == ChatInit /\ [][ChatNext]_vars

\* Two callers, caller c with phone c and call c on connection c, from a text
\* message and the webhook to the status callback that ends the call, each
\* stream started once.
CallStep(c) ==
  \/ TextMessage(c)
  \/ handleWhatsAppVoiceCall(c, c)
  \/ handleVoiceCallStatus(c, "completed")
  \/ TwilioConnect(c)
  \/ FirstStart(c)
  \/ TwilioClose(c)
  \/ \E i \in 1..MaxSocks, o \in RelayOutcomes :
       i \in DOMAIN invocations /\ invocations[i].conn = c /\ RouterReturns(i, o)
  \/ \E i \in 1..MaxSocks :
       i \in DOMAIN invocations /\ invocations[i].conn = c /\ ImportResolves(i)
  \/ \E s \in 1..MaxSocks :
       /\ s \in DOMAIN socks
       /\ socks[s].owner = c
       /\ \/ OpenAiOpen(s)
          \/ OpenAiTimer(s)
          \/ \E r \in {"user", "assistant"} : OpenAiTranscript(s, r)
          \/ OpenAiClosed(s)

CallsNext == \E c \in Conns : CallStep(c)

CallsSpec == RegInit /\ [][CallsNext]_vars

\* The start of one call whose caller has a history of up to two turns, with
\* every answer the classifier can give; no audio.
PrimeHistories ==
  PriorHistories \cup {<<Said("user", 11), Said("assistant", 12)>>,
                       <<Said("assistant", 11), Said("user", 12)>>}

PrimeInit ==
  /\ RelayInit
  /\ EmptyStore
  /\ wsState = [c \in Conns |-> "none"]
  /\ sessions = [p \in Conns |-> SessionAfterWebhook(p)]
  /\ \E h \in PrimeHistories : arrays = [p \in Conns |-> IF p \in Solo THEN h ELSE <<>>]
  /\ voiceSessions = [c \in Solo |-> EntryAfterWebhook(c)]

PrimeNext ==
  \/ \E c \in Solo : TwilioConnect(c)
  \/ \E c \in Solo : FirstStart(c)
  \/ \E c \in Solo : TwilioClose(c)
  \/ \E i \in 1..MaxSocks, o \in ClassifierOutcomes : RouterReturns(i, o)
  \/ \E i \in 1..MaxSocks : ImportResolves(i)
  \/ \E s \in 1..MaxSocks : OpenAiOpen(s)
  \/ \E s \in 1..MaxSocks : OpenAiTimer(s)
  \/ \E s \in 1..MaxSocks, r \in {"user", "assistant"} : OpenAiTranscript(s, r)
  \/ \E s \in 1..MaxSocks : OpenAiAudioResponseDone(s)
  \/ \E s \in 1..MaxSocks : OpenAiClosed(s)

PrimeSpec == PrimeInit /\ [][PrimeNext]_vars

\* One caller, phone 1, calls twice: call 1 on connection 1 and, after that
\* stream has closed, call 2 on connection 2, while the hours pass and the sweep
\* of whatsapp.js runs. The status callback of a call comes after its stream
\* has closed.
Caller == 1

WebhookOf(c) ==
  /\ wsState[c] = "none"
  /\ c \notin DOMAIN voiceSessions
  /\ \A d \in Conns : d < c => wsState[d] = "closed"
  /\ handleWhatsAppVoiceCall(c, Caller)

SeqStep(c) ==
  \/ WebhookOf(c)
  \/ c \in DOMAIN voiceSessions /\ TwilioConnect(c)
  \/ FirstStart(c)
  \/ TwilioClose(c)
  \/ wsState[c] = "closed" /\ handleVoiceCallStatus(c, "completed")
  \/ \E i \in 1..MaxSocks, o \in RelayOutcomes :
       i \in DOMAIN invocations /\ invocations[i].conn = c /\ RouterReturns(i, o)
  \/ \E i \in 1..MaxSocks :
       i \in DOMAIN invocations /\ invocations[i].conn = c /\ ImportResolves(i)
  \/ \E s \in 1..MaxSocks :
       /\ s \in DOMAIN socks
       /\ socks[s].owner = c
       /\ \/ OpenAiOpen(s)
          \/ OpenAiTimer(s)
          \/ \E r \in {"user", "assistant"} : OpenAiTranscript(s, r)
          \/ OpenAiClosed(s)

SeqNext ==
  \/ \E c \in Conns : SeqStep(c)
  \/ TickTo(MaxIdle)
  \/ cleanupOldSessions

SeqSpec == RegInit /\ [][SeqNext]_vars

\* ------------------------------------------------------------------- claims
SocketsOf(c) == {s \in DOMAIN socks : socks[s].owner = c}

\* The audio of the input_audio_buffer.append events sent on socket s, in order.
RECURSIVE AudioOf(_)
AudioOf(sent) ==
  IF sent = <<>> THEN <<>>
  ELSE IF IsAppend(Head(sent)) THEN <<Head(sent).audio>> \o AudioOf(Tail(sent))
       ELSE AudioOf(Tail(sent))

\* ... on every socket of call c, the sockets taken in creation order.
RECURSIVE AppendsFrom(_, _)
AppendsFrom(c, s) ==
  IF s > Len(socks) THEN <<>>
  ELSE (IF socks[s].owner = c THEN AudioOf(socks[s].sent) ELSE <<>>) \o AppendsFrom(c, s + 1)

AppendsOf(c) == AppendsFrom(c, 1)

\* C1: on a socket that was given the caller's prior history, no
\* input_audio_buffer.append is sent before the priming sequence (session.update,
\* conversation.item.create, response.create) is complete.
C1_PrimingBeforeAudio ==
  \A s \in DOMAIN socks :
    LET sent == socks[s].sent IN
    \A i \in DOMAIN sent :
      (IsAppend(sent[i]) /\ \E k \in DOMAIN sent : IsContextItem(sent[k]))
        => \E j \in 1..(i - 1) : IsResponseCreate(sent[j])

\* C2: the audio appended to the OpenAI sockets of a call is, in order and
\* unchanged, the media frames the call's Twilio connection delivered while the
\* call's OpenAI socket was open; no frame of another call is among it.
RECURSIVE BridgedFrames(_)
BridgedFrames(frames) ==
  IF frames = <<>> THEN <<>>
  ELSE (IF Head(frames).bridging THEN <<Head(frames).payload>> ELSE <<>>)
         \o BridgedFrames(Tail(frames))

C2_FramesForwardedInOrder == \A c \in Conns : AppendsOf(c) = BridgedFrames(mediaIn[c])

\* Two frames of one call were forwarded while the other call was bridging too.
C2_Witness ==
  \E c, d \in Conns : c # d /\ Len(AppendsOf(c)) >= 2 /\ Bridging(d)

\* C3: the media frames written to a call's Twilio socket are, in order, the
\* audio deltas received on that call's OpenAI sockets while the Twilio socket was
\* open, each once, with the delta as payload and the stream's StreamSid.
RECURSIVE DeliveredDeltas(_, _)
DeliveredDeltas(c, deltas) ==
  IF deltas = <<>> THEN <<>>
  ELSE (IF Head(deltas).twilioOpen
        THEN <<[event |-> "media", streamSid |-> StreamSidOf(c), payload |-> Head(deltas).delta]>>
        ELSE <<>>) \o DeliveredDeltas(c, Tail(deltas))

C3_DeltasForwardedInOrder == \A c \in Conns : toTwilio[c] = DeliveredDeltas(c, deltaIn[c])

\* Two deltas of one call were written to its Twilio socket while the other
\* call's Twilio socket was open and bridging too.
C3_Witness ==
  \E c, d \in Conns :
    c # d /\ Len(toTwilio[c]) >= 2 /\ wsState[d] = "open" /\ Bridging(d)

\* C4: once 'stop' was delivered on a connection, no media frame is written to its
\* Twilio socket and no audio is appended to its OpenAI sockets any more.
C4_NoAudioAfterStop ==
  [][\A c \in Conns :
       stopped[c] => (toTwilio'[c] = toTwilio[c] /\ AppendsOf(c)' = AppendsOf(c))]_vars

\* C5: once the Twilio socket of a call has closed or delivered 'stop', the call
\* has no OpenAI socket that is connecting or open.
C5_NoOpenAiSocketAfterTwilioEnd ==
  \A c \in Conns :
    (stopped[c] \/ wsState[c] = "closed")
      => \A s \in SocketsOf(c) : socks[s].readyState \notin {CONNECTING, OPEN}

\* C6: when the OpenAI socket of a call drops (closes without the relay having
\* closed it) while the call is bridging (Twilio socket open, no 'stop' yet), then
\* eventually the Twilio socket is closed and the call's entry is gone from
\* voiceSessions.
AiDropped(c) ==
  \E s \in SocketsOf(c) :
    socks[s].opened /\ socks[s].readyState = CLOSED /\ ~socks[s].closeCalled

C6_AiDropEndsCall ==
  \A c \in Conns :
    (AiDropped(c) /\ wsState[c] = "open" /\ ~stopped[c])
      ~> (wsState[c] = "closed" /\ c \notin DOMAIN voiceSessions)

\* C7: a call has at most one OpenAI socket over its lifetime.
C7_AtMostOneOpenAiSocket == \A c \in Conns : Cardinality(SocketsOf(c)) <= 1

\* C8: on every OpenAI socket nothing is sent before the socket has opened, and
\* the first event sent is session.update.
C8_SessionUpdateFirst ==
  \A s \in DOMAIN socks :
    /\ ~socks[s].opened => socks[s].sent = <<>>
    /\ socks[s].sent # <<>> => Head(socks[s].sent).type = "session.update"

\* A frame arrived before the call's socket was open and was not forwarded; a
\* later one was, after session.update.
C8_Witness ==
  \E c \in Conns :
    /\ \E i \in DOMAIN mediaIn[c] : ~mediaIn[c][i].bridging
    /\ \E s \in SocketsOf(c) : \E i \in DOMAIN socks[s].sent : IsAppend(socks[s].sent[i])

\* C9: a call that has begun to forward audio has had exactly one context-priming
\* step: one conversation.item.create over the call's sockets.
RECURSIVE PrimingsFrom(_, _)
PrimingsFrom(c, s) ==
  IF s > Len(socks) THEN 0
  ELSE (IF socks[s].owner = c THEN Count(socks[s].sent, IsContextItem) ELSE 0)
         + PrimingsFrom(c, s + 1)

PrimingCount(c) == PrimingsFrom(c, 1)

C9_ExactlyOnePriming ==
  \A c \in Conns : AppendsOf(c) # <<>> => PrimingCount(c) = 1

\* C10: a webhook for a callSid that already has an entry in voiceSessions is
\* refused with DuplicateSession and leaves the entry as it was.
C10_DuplicateCreateRejected ==
  [][\A cs \in CallSids, p \in Phones :
       (cs \in DOMAIN voiceSessions /\ handleWhatsAppVoiceCall(cs, p))
         => (voiceSessions' = voiceSessions /\ lastResponse'.kind = "DuplicateSession")]_vars

\* C11: the status callback that removes a call's entry from voiceSessions leaves
\* neither socket of that call open: the Twilio socket is not open and no OpenAI
\* socket of the call is connecting or open once the entry is gone.
C11_DestroyClosesSockets ==
  [][\A cs \in CallSids :
       (cs \in DOMAIN voiceSessions /\ cs \notin DOMAIN voiceSessions')
         => /\ wsState'[cs] # "open"
            /\ \A s \in DOMAIN socks' :
                 socks'[s].owner = cs => socks'[s].readyState \notin {CONNECTING, OPEN}]_vars

\* C12: a status callback for a CallSid without an entry changes nothing in the
\* registry and is answered 200, and cleaning up twice gives what cleaning up
\* once gives.
C12_DestroyIdempotent ==
  [][\A cs \in CallSids, st \in CallStatuses :
       /\ (cs \notin DOMAIN voiceSessions /\ handleVoiceCallStatus(cs, st))
            => /\ voiceSessions' = voiceSessions
               /\ sessions' = sessions
               /\ arrays' = arrays
               /\ lastResponse'.kind = "200"
       /\ StatusCleanup(StatusCleanup(voiceSessions, cs, st), cs, st)
            = StatusCleanup(voiceSessions, cs, st)]_vars

\* A 'completed' callback was answered for a CallSid that had no entry while
\* another call had one.
C12_Witness ==
  /\ lastResponse.kind = "200"
  /\ lastResponse.status = "completed"
  /\ ~lastResponse.hadEntry
  /\ DOMAIN voiceSessions # {}

\* C13: after a status callback with a terminal status (completed, failed, busy,
\* no-answer, canceled) voiceSessions has no entry for the CallSid; any other
\* status leaves voiceSessions as it was.
TerminalStatuses == {"completed", "failed", "busy", "no-answer", "canceled"}

C13_TerminalStatusRemovesEntry ==
  [][\A cs \in CallSids, st \in CallStatuses :
       handleVoiceCallStatus(cs, st)
         => IF st \in TerminalStatuses
            THEN cs \notin DOMAIN voiceSessions'
            ELSE voiceSessions' = voiceSessions]_vars

\* C14: once 'stop' was delivered on a call's connection, or the call's OpenAI
\* socket dropped, eventually the Twilio socket and every OpenAI socket of the
\* call are closed and the call's entry is gone from voiceSessions, whether or
\* not a status callback arrives.
TornDown(c) ==
  /\ wsState[c] = "closed"
  /\ \A s \in SocketsOf(c) : socks[s].readyState = CLOSED
  /\ c \notin DOMAIN voiceSessions

C14_RelayCompletesTeardown ==
  \A c \in Conns : (stopped[c] \/ AiDropped(c)) ~> TornDown(c)

\* C15: a voiceSessions entry idle for longer than the timeout is eventually
\* removed.
IdleTooLong(cs) ==
  cs \in DOMAIN voiceSessions /\ now - voiceSessions[cs].lastActivity > SESSION_TIMEOUT

C15_IdleSessionSwept ==
  \A cs \in CallSids : IdleTooLong(cs) ~> (cs \notin DOMAIN voiceSessions)

\* C16: a 'start' that finds no entry, an empty history or a history without a
\* user turn does not ask the classifier and uses the default agent, and every
\* OpenAI socket opened without the classifier carries the default agent's
\* instructions.
NoUserTurn(session) == ~(HasHistory(session) /\ HasUserMessage(session))

C16_NoHistoryNoClassifier ==
  [][/\ \A c \in Conns :
          (TwilioStart(c) /\ NoUserTurn(SessionOf(c)))
            => LET inv == invocations'[Len(invocations')] IN
               /\ ~inv.routed
               /\ inv.pc # "routing"
               /\ inv.agentType = DefaultAgent
     /\ \A s \in DOMAIN socks' :
          ~socks'[s].routed
            => socks'[s].instructions = getVoiceInstructions(DefaultAgent)]_vars

\* Sockets were opened without the classifier for a call without an entry and
\* for a call whose history holds only an assistant turn.
C16_Witness ==
  \E s \in DOMAIN socks :
    /\ ~socks[s].routed
    /\ socks[s].opened
    /\ \/ socks[s].session = Null
       \/ /\ socks[s].session # Null
          /\ arrays[socks[s].session] = <<Turn("assistant")>>

\* C17: when the classifier throws or answers with no agent name, connectToOpenAI
\* goes on to open the socket, with the instructions of the default agent, the
\* ones used when there is no history; equal outcomes give equal instructions.
FallbackOutcomes == {"unclear", "throws"}

C17_FallbackIsDefaultProfile ==
  \A i \in DOMAIN invocations :
    /\ invocations[i].classifier \in FallbackOutcomes
         => /\ invocations[i].pc = "importing"
            /\ invocations[i].instructions = getVoiceInstructions(DefaultAgent)
    /\ invocations[i].classifier # "none"
         => invocations[i].instructions
              = getVoiceInstructions(routeToAgent(invocations[i].classifier))

C17_Witness ==
  \E i \in DOMAIN invocations :
    invocations[i].classifier = "throws" /\ invocations[i].agentType = "general"

\* C18: a call suspended on the classifier eventually goes on to create its
\* OpenAI socket, even when the classifier never answers.
RoutingPending(c) ==
  \E i \in DOMAIN invocations : invocations[i].conn = c /\ invocations[i].pc = "routing"

C18_RoutingTerminates ==
  \A c \in Conns : RoutingPending(c) ~> (SocketsOf(c) # {})

\* C19: a voice webhook whose body lacks CallSid or From is answered with an
\* error and creates neither a voiceSessions entry nor a messaging session.
C19_MissingFieldRejected ==
  [][\A cs \in CallSids \cup {Undefined}, p \in Phones \cup {Undefined} :
       ((cs = Undefined \/ p = Undefined) /\ handleWhatsAppVoiceCall(cs, p))
         => /\ lastResponse'.kind # "twiml-connect"
            /\ voiceSessions' = voiceSessions
            /\ sessions' = sessions]_vars

\* C20: a step of one call (webhook, connect, start, routing, socket events,
\* transcript, stop, close, status callback) leaves every other call's entry,
\* histories, connection variables, suspended invocations and sockets as they
\* were.
HistoryAt(a) == IF a \in DOMAIN arrays THEN <<arrays[a]>> ELSE <<>>

CallView(d) ==
  [entry |-> IF d \in DOMAIN voiceSessions THEN <<voiceSessions[d]>> ELSE <<>>,
   entryHistory |-> IF d \in DOMAIN voiceSessions
                    THEN HistoryAt(voiceSessions[d].conversationHistory) ELSE <<>>,
   session |-> IF d \in DOMAIN sessions THEN <<sessions[d]>> ELSE <<>>,
   history |-> IF d \in DOMAIN sessions
               THEN HistoryAt(sessions[d].conversationHistory) ELSE <<>>,
   twilio |-> <<wsState[d], streamSid[d], callSid[d], stopped[d], toTwilio[d]>>,
   pending |-> {inv \in {invocations[i] : i \in DOMAIN invocations} : inv.conn = d},
   openAi |-> {socks[s] : s \in SocketsOf(d)}]

C20_CallsIsolated ==
  [][\A c \in Conns :
       CallStep(c) => \A d \in Conns \ {c} : CallView(d)' = CallView(d)]_vars

\* Both calls are bridging, a transcript was appended to the history of one and
\* the status callback has removed the entry of the other.
C20_Witness ==
  \E c, d \in Conns :
    /\ c # d
    /\ Bridging(c) /\ Bridging(d)
    /\ c \in DOMAIN voiceSessions
    /\ HistoryAt(voiceSessions[c].conversationHistory) # <<<<>>>>
    /\ d \notin DOMAIN voiceSessions
    /\ lastResponse = [kind |-> "200", callSid |-> d, status |-> "completed",
                       hadEntry |-> TRUE]

\* C23: after any sequence of saveConversation, deleteConversation and
\* cleanupOldConversations calls the store holds at most one record per phone
\* number; a saveConversation that succeeded leaves exactly one record of its
\* phone number, whether a record existed before or not; and saving the same
\* record a second time leaves the store as the first save left it.
C23_OneRecordPerPhone ==
  /\ \A p \in Phones : Cardinality(RowsOf(store, p)) <= 1
  /\ (lastOp.fn = "saveConversation" /\ ~lastOp.failed)
       => Cardinality(RowsOf(store, lastOp.phone)) = 1
  /\ \A p \in Phones, id \in ConvIds :
       LET row == Row(p, id, "legal")
           once == Upsert(store, row)
       IN /\ Upsert(once, row) = once
          /\ RowsOf(once, p) = {row}

\* A save that succeeded on a phone number that had a record, beside the record
\* of the other phone number.
C23_Witness ==
  /\ lastOp.fn = "saveConversation"
  /\ ~lastOp.failed
  /\ lastOp.rowsBefore = 1
  /\ Cardinality(store) = 2

\* C25: a record whose last_activity is older than the thirty days is eventually
\* deleted (or is active again), and no sweep deletes a record that was active
\* within the thirty days.
Expired(r) == r.last_activity < now - THIRTY_DAYS

C25_ExpiredRecordDeleted ==
  /\ \A p \in Phones :
       (\E r \in RowsOf(store, p) : Expired(r))
         ~> ~(\E r \in RowsOf(store, p) : Expired(r))
  /\ [][\A ok \in BOOLEAN :
          cleanupOldConversations(ok)
            => \A r \in store : ~Expired(r) => r \in store']_vars

\* C22: when a chat request whose phone number had a stored conversation
\* reference completes, the fetched reference is the one the agent run continued
\* from, and the store holds in that phone number's single record the new
\* reference the run produced.
ChatCompletes(r) ==
  /\ r \in DOMAIN chats
  /\ chats[r].pc # "done"
  /\ chats'[r].pc = "done"

C22_ChatContinuesStoredReference ==
  [][\A r \in 1..MaxChats :
       (ChatCompletes(r) /\ chats[r].existing # Null)
         => /\ chats'[r].continuedFrom = chats[r].existing
            /\ chats'[r].resultId # Null
            /\ \E row \in store' :
                 /\ RowsOf(store', chats[r].phone) = {row}
                 /\ row.conversation_id = chats'[r].resultId]_vars

\* C24: with the store unconfigured or the operation failing, getConversation
\* returns the nulls without throwing and the table is left as it was; the chat
\* request that met the failure has no stored reference and is never answered
\* with an error: once done, its status is 200.
C24_StoreFailureDegrades ==
  /\ \A p \in Phones, ok \in BOOLEAN :
       ~(supabase /\ ok)
         => /\ getConversation(p, ok) = NoConversation
            /\ \A id \in ConvIds : SavedStore(p, id, "legal", ok) = store
  /\ \A r \in DOMAIN chats :
       /\ chats[r].status # "500"
       /\ chats[r].pc = "done" => chats[r].status = "200"
       /\ chats[r].getFailed => chats[r].existing = Null

\* A request answered with 200 whose lookup and whose save both failed.
C24_Witness ==
  \E r \in DOMAIN chats :
    /\ chats[r].pc = "done"
    /\ chats[r].status = "200"
    /\ chats[r].getFailed
    /\ chats[r].saveFailed
    /\ chats[r].resultId # Null

\* C21: when the OpenAI socket of the caller's second call opens, the context
\* item sent on it contains every turn that the first call recorded.
TurnsOfCall(c) ==
  UNION {{arrays[socks[s].session][i] : i \in DOMAIN arrays[socks[s].session]} :
           s \in {t \in SocketsOf(c) : socks[t].session # Null}}

ContextContains(sent, turn) ==
  \E k \in DOMAIN sent :
    /\ IsContextItem(sent[k])
    /\ \E j \in DOMAIN sent[k].lines : sent[k].lines[j].content = turn.content

C21_SecondCallPrimedWithFirst ==
  [][\A s \in 1..MaxSocks :
       (s \in DOMAIN socks /\ socks[s].owner = 2 /\ OpenAiOpen(s))
         => \A turn \in TurnsOfCall(1) : ContextContains(socks'[s].sent, turn)]_vars

\* C27: after the webhook has answered with the apology and <Hangup/>,
\* voiceSessions holds no entry for the CallSid of that request.
C27_ErrorResponseLeavesNoEntry ==
  lastResponse.kind = "twiml-hangup" => lastResponse.callSid \notin DOMAIN voiceSessions

\* C26: when the OpenAI socket of a call is closed without ever having opened
\* while the Twilio stream is open, the Twilio stream is eventually closed and
\* the call's entry removed.
AiUnreachable(c) ==
  \E s \in SocketsOf(c) : ~socks[s].opened /\ socks[s].readyState = CLOSED

C26_UnreachableAiEndsCall ==
  \A c \in Conns :
    (AiUnreachable(c) /\ wsState[c] = "open")
      ~> (wsState[c] = "closed" /\ c \notin DOMAIN voiceSessions)

\* C28: once the relay has handled the 'start' event of a stream, voiceSessions
\* holds an entry for the announced callSid and connectToOpenAI was given a
\* session.
C28_StartLooksUpOrCreates ==
  [][\A c \in Conns :
       TwilioStart(c)
         => /\ callSid'[c] \in DOMAIN voiceSessions'
            /\ invocations'[Len(invocations')].session # Null]_vars

\* C29: every conversation.item.create sent to OpenAI has the role system and
\* the label of previous-conversation context, no event sent has the role user
\* or assistant, a socket is sent at most one such item, and the item the open
\* handler sends holds one line per prior turn, in the order of the history,
\* with the turn's speaker and content.
ContextItemsOf(sent) == {k \in DOMAIN sent : sent[k].type = "conversation.item.create"}

SpeakerOf(role) == IF role = "user" THEN "User" ELSE "Assistant"

C29_ContextIsOneSystemItem ==
  /\ [](\A s \in DOMAIN socks :
         /\ Cardinality(ContextItemsOf(socks[s].sent)) <= 1
         /\ \A k \in DOMAIN socks[s].sent :
              /\ socks[s].sent[k].role \notin {"user", "assistant"}
              /\ k \in ContextItemsOf(socks[s].sent)
                   => /\ socks[s].sent[k].role = "system"
                      /\ socks[s].sent[k].label = "PREVIOUS CONVERSATION CONTEXT")
  /\ [][\A s \in 1..MaxSocks :
          (OpenAiOpen(s) /\ HasHistory(socks[s].session))
            => LET history == arrays[socks[s].session]
                   sent == socks'[s].sent
               IN /\ Cardinality(ContextItemsOf(sent)) = 1
                  /\ \A k \in ContextItemsOf(sent) :
                       /\ Len(sent[k].lines) = Len(history)
                       /\ \A i \in DOMAIN history :
                            /\ sent[k].lines[i].speaker = SpeakerOf(history[i].role)
                            /\ sent[k].lines[i].content = history[i].content]_vars

\* A socket was sent the context of a history of two turns.
C29_Witness ==
  \E s \in DOMAIN socks :
    \E k \in ContextItemsOf(socks[s].sent) :
      /\ Len(socks[s].sent[k].lines) = 2
      /\ socks[s].sent[k].lines[1].speaker = "Assistant"
      /\ socks[s].sent[k].lines[2].speaker = "User"

\* C30 as stated: the instructions of every session.update are those of the
\* agent the router selected, whichever of the five agents that is.
SessionUpdatesOf(sent) == {k \in DOMAIN sent : sent[k].type = "session.update"}

VoiceAgents == {"healthcare", "financial", "legal"}

OpenHandlerDone(s) == socks[s].opened /\ ~socks[s].timer

C31_InitialResponseRequested ==
  \A s \in DOMAIN socks :
    LET sent == socks[s].sent IN
    /\ OpenHandlerDone(s) => Count(sent, IsResponseCreate) = 1
    /\ \A i \in DOMAIN sent :
         IsResponseCreate(sent[i])
           => /\ \E j \in 1..(i - 1) : sent[j].type = "session.update"
              /\ HasHistory(socks[s].session)
                   => \E j \in 1..(i - 1) : IsContextItem(sent[j])

\* C32: every completed user transcription and every completed assistant
\* response a call's socket receives appends one turn of that speaker to the
\* end of the call session's history, and no step removes or reorders the turns
\* a history holds.
TurnCompleted(s, role) ==
  \/ OpenAiTranscript(s, role)
  \/ role = "assistant" /\ OpenAiAudioResponseDone(s)

IsPrefix(a, b) == Len(a) <= Len(b) /\ SubSeq(b, 1, Len(a)) = a

C32_EveryTurnRecorded ==
  /\ [][\A s \in 1..MaxSocks, role \in {"user", "assistant"} :
          TurnCompleted(s, role)
            => /\ socks[s].session # Null
               /\ LET before == arrays[socks[s].session]
                      after == arrays'[socks[s].session]
                  IN /\ Len(after) = Len(before) + 1
                     /\ IsPrefix(before, after)
                     /\ after[Len(after)].role = role]_vars
  /\ [][\A a \in DOMAIN arrays :
          a \in DOMAIN arrays' /\ IsPrefix(arrays[a], arrays'[a])]_vars

\* C33: whatever the interleaving of the chat requests, a phone number never
\* has two records, a record's reference is one that a request for that phone
\* number produced (or the one stored before the requests), and a
\* saveConversation that completes leaves its own reference in the phone
\* number's single record, whatever was written before it.
ReferencesOf(p) ==
  {chats[r].resultId : r \in {q \in DOMAIN chats : chats[q].phone = p}}

C33_LastWriteWins ==
  /\ [](\A p \in Phones :
         /\ Cardinality(RowsOf(store, p)) <= 1
         /\ \A row \in RowsOf(store, p) :
              \/ row.conversation_id \in ReferencesOf(p)
              \/ row = Row(1, MaxConvs, "legal") /\ row.last_activity = 0)
  /\ [][\A r \in 1..MaxChats, ok \in BOOLEAN :
          (ChatSaved(r, ok) /\ supabase /\ ok)
            => \E row \in store' :
                 /\ RowsOf(store', chats[r].phone) = {row}
                 /\ row.conversation_id = chats[r].resultId
                 /\ row.last_agent = chats[r].agent]_vars

\* Two requests for one phone number have both saved, different references,
\* and the record holds the reference of the request that arrived first: the
\* second request saved before the first did.
C33_Witness ==
  /\ Len(chats) = 2
  /\ chats[1].phone = chats[2].phone
  /\ chats[1].phone # Undefined
  /\ \A r \in 1..2 :
       chats[r].pc = "done" /\ ~chats[r].saveFailed /\ chats[r].resultId # Null
  /\ chats[1].resultId # chats[2].resultId
  /\ \E row \in store :
       /\ RowsOf(store, chats[1].phone) = {row}
       /\ row.conversation_id = chats[1].resultId

\* C34: a sweep removes exactly the messaging sessions whose lastActivity lies
\* more than one hour back and leaves the others as they are; no other step
\* removes a session; and every step that calls getSession for a phone number
\* leaves that session with lastActivity at the present time.
IdleHours(p) == now - sessions[p].lastActivity

CallsGetSession(p) ==
  \/ TextMessage(p)
  \/ \E cs \in CallSids : handleWhatsAppVoiceCall(cs, p)

C34_SweepRemovesIdleSessions ==
  /\ [][cleanupOldSessions
          => \A p \in DOMAIN sessions :
               IF IdleHours(p) > 1
               THEN p \notin DOMAIN sessions'
               ELSE p \in DOMAIN sessions' /\ sessions'[p] = sessions[p]]_vars
  /\ [][\A p \in DOMAIN sessions :
          p \notin DOMAIN sessions' => cleanupOldSessions /\ IdleHours(p) > 1]_vars
  /\ [][\A p \in Phones :
          CallsGetSession(p)
            => p \in DOMAIN sessions' /\ sessions'[p].lastActivity = now']_vars

\* The session of a caller has been swept while the session of the other phone
\* number, idle for exactly one hour, is there.
C34_Witness ==
  \E p, q \in Phones :
    /\ p \notin DOMAIN sessions
    /\ \E cs \in DOMAIN voiceSessions : voiceSessions[cs].phoneNumber = p
    /\ q \in DOMAIN sessions
    /\ IdleHours(q) = 1

\* C35: while the stream of a call is open, the caller's messaging session is
\* in `sessions` and its history is the array the call records into.
CallInProgress(c) == wsState[c] = "open" /\ c \in DOMAIN voiceSessions

C35_SessionKeptDuringCall ==
  \A c \in Conns :
    CallInProgress(c)
      => LET p == voiceSessions[c].phoneNumber IN
         /\ p \in DOMAIN sessions
         /\ sessions[p].conversationHistory = voiceSessions[c].conversationHistory

\* C36: in production a message-webhook request whose signature does not
\* validate is answered 403 and changes nothing else: no session, no history,
\* no entry, no relay state.
C36_InvalidSignatureRejected ==
  [][\A p \in Phones :
       handleWhatsAppWebhook(p, FALSE, TRUE)
         => /\ lastResponse'.kind = "403"
            /\ UNCHANGED <<sideVars, now, sessions, arrays, voiceSessions, connVars,
                           relayVars, budgetVars>>]_vars

\* A request was answered 403 while a session idle for an hour existed and no
\* message had been accepted.
C36_Witness ==
  /\ lastResponse.kind = "403"
  /\ nTurns = 0
  /\ \E p \in DOMAIN sessions : IdleHours(p) = 1 /\ arrays[sessions[p].conversationHistory] = <<>>

\* C37: once every connect() and disconnect() call has run to its end, status
\* is 'connected' only if sessionRef holds a session that is open; and a
\* connect() that fails sets status 'disconnected'.
Settled == \A k \in DOMAIN hookCalls : hookCalls[k].pc = "done"

C37_ConnectedMeansSession ==
  /\ [](Settled /\ hookStatus = "connected"
          => sessionRef # Null /\ hookSessions[sessionRef] = "open")
  /\ [][\A k \in 1..MaxHookCalls :
          (ConnectFetched(k, FALSE) \/ \E h \in BOOLEAN : SessionConnected(k, FALSE, h))
            => hookStatus' = "disconnected"]_vars

\* C38: no createOrGetUser call raises an error; a call that has returned
\* returned the one row of its normalized phone number; and no normalized phone
\* number has two rows.
C38_OneUserRowNoError ==
  /\ \A k \in DOMAIN userCalls :
       /\ userCalls[k].pc # "threw"
       /\ userCalls[k].pc = "returned"
            => UserRowsOf(userCalls[k].phone) = {userCalls[k].result[1]}
  /\ \A r1, r2 \in users : r1.phone_number = r2.phone_number => r1 = r2

====
